---------------------------- MODULE Spec2Model ----------------------------
(***************************************************************************)
(* Model of src/PBL_Code.py: the greedy allocation of resource capacity to *)
(* incidents (allocate_resources) together with the distance and score     *)
(* arithmetic it depends on.                                               *)
(*                                                                         *)
(* Geography.  All points lie on one meridian (lon = 0) and a latitude is  *)
(* counted in grid steps whose arc length is 1/8 km.  On a meridian the    *)
(* haversine formula reduces to R * |dphi|, so a distance is the absolute  *)
(* difference of two latitudes, in eighths of a kilometre.                 *)
(*                                                                         *)
(* Floating point.  Python floats are binary64: every arithmetic result is *)
(* rounded to the nearest value with a 53 bit significand, ties to even.   *)
(* The model keeps that rounding but with SignificandBits bits.  A float   *)
(* is a pair <<q, e>> standing for q * 2^e with                            *)
(* 2^(SignificandBits-1) <= q < 2^SignificandBits.  Only positive floats   *)
(* occur: severities are positive and distances are non-negative.          *)
(***************************************************************************)
EXTENDS Integers, Sequences, FiniteSets

(* ------------------------------ bounds -------------------------------- *)

NumIncidents == 2

NumResources == 2

SignificandBits == 4

Severities == {1, 2}

Demands == 0..2

Capacities == 0..2

ResourceLats == {6, 7}

Types == <<"Medical", "Rescue Team", "Truck">>

(* --------------------------- arithmetic ------------------------------- *)

RECURSIVE Pow2(_)
Pow2(k) == IF k = 0 THEN 1 ELSE 2 * Pow2(k - 1)

Abs(x) == IF x < 0 THEN -x ELSE x

\* n / m rounded to the nearest integer, ties to the even one (n >= 0, m > 0).
RoundHalfEven(n, m) ==
    LET fl == n \div m
        r2 == 2 * (n % m)
    IN  IF r2 > m \/ (r2 = m /\ fl % 2 = 1) THEN fl + 1 ELSE fl

\* The float nearest to the positive rational n / m.
RECURSIVE FloatQuot(_, _)
FloatQuot(n, m) ==
    IF n < Pow2(SignificandBits - 1) * m
    THEN LET f == FloatQuot(2 * n, m) IN <<f[1], f[2] - 1>>
    ELSE IF n >= Pow2(SignificandBits) * m
    THEN LET f == FloatQuot(n, 2 * m) IN <<f[1], f[2] + 1>>
    ELSE LET q == RoundHalfEven(n, m)
         IN  IF q = Pow2(SignificandBits)
             THEN <<Pow2(SignificandBits - 1), 1>>
             ELSE <<q, 0>>

\* x < y for positive floats.
FloatLess(x, y) == x[2] < y[2] \/ (x[2] = y[2] /\ x[1] < y[1])

\* haversine(lat1, 0, lat2, 0), in eighths of a kilometre.
haversine(lat1, lat2) == Abs(lat2 - lat1)

\* 1.0 + dist, as a float (dist in eighths of a kilometre).
OnePlusDist(dist) == FloatQuot(8 + dist, 8)

\* score = inc.severity / (1.0 + dist), as a float.
Score(severity, dist) ==
    LET x == OnePlusDist(dist)
    IN  IF x[2] >= 0
        THEN FloatQuot(severity, x[1] * Pow2(x[2]))
        ELSE FloatQuot(severity * Pow2(-x[2]), x[1])

\* round(dist, 2), in hundredths of a kilometre.
RoundDist(dist) == RoundHalfEven(100 * dist, 8)


(* ------------------------------ state --------------------------------- *)

VARIABLES
    incidents,          \* the caller's incident list
    resources,          \* the caller's resource list (capacity is mutable)
    pc,                 \* position in allocate_resources
    allocations,        \* local: the records emitted so far
    incidents_sorted,   \* local: the incidents (positions in the list) in processing order
    inc_pos,            \* position of `for inc in incidents_sorted`
    remaining,          \* local: unmet demand of the current incident
    candidates,         \* local: scored resources of the current incident
    cand_pos,           \* position of `for score, res, dist in candidates`
    incidents0,         \* history: the incident list as passed to the call
    resources0,         \* history: the resource list as passed to the call
    first_call          \* history: result of the first call, once repeated

vars == <<incidents, resources, pc, allocations, incidents_sorted, inc_pos,
          remaining, candidates, cand_pos, incidents0, resources0, first_call>>

\* Incident(id, lat, lon, severity, demand)
Incident(id, lat, lon, severity, demand) ==
    [id |-> id, lat |-> lat, lon |-> lon, severity |-> severity, demand |-> demand]

\* Resource(id, lat, lon, capacity, type)
Resource(id, lat, lon, capacity, type) ==
    [id |-> id, lat |-> lat, lon |-> lon, capacity |-> capacity, type |-> type]

\* Odd incidents sit at latitude 0, even ones at latitude 7.
IncidentLat(i) == IF i % 2 = 1 THEN 0 ELSE 7

\* Incident lists: ids 1..n in list order, any severity and demand.
IncidentLists ==
    { [i \in 1..NumIncidents |-> Incident(i, IncidentLat(i), 0, sv[i], dm[i])] :
        sv \in [1..NumIncidents -> Severities], dm \in [1..NumIncidents -> Demands] }

\* Resource lists: distinct resources, ids 1..m in list order.
ResourceLists ==
    { [r \in 1..NumResources |-> Resource(r, lt[r], 0, cp[r], Types[((r - 1) % 3) + 1])] :
        lt \in [1..NumResources -> ResourceLats], cp \in [1..NumResources -> Capacities] }

Init ==
    /\ incidents \in IncidentLists
    /\ resources \in ResourceLists
    /\ pc = "call"
    /\ allocations = <<>>
    /\ incidents_sorted = <<>>
    /\ inc_pos = 0
    /\ remaining = 0
    /\ candidates = <<>>
    /\ cand_pos = 0
    /\ incidents0 = incidents
    /\ resources0 = resources
    /\ first_call = <<>>

(* --------------------------- allocate_resources ----------------------- *)

\* A comparison that also holds for equal keys: ties leave input order.
IncidentKeyLessOrEqual(a, b) ==
    \/ -a.severity < -b.severity
    \/ (-a.severity = -b.severity /\ -a.demand <= -b.demand)

\* key(a) < key(b) for key = (-severity, -demand), compared as tuples.
IncidentKeyLess(a, b) ==
    \/ -a.severity < -b.severity
    \/ (-a.severity = -b.severity /\ -a.demand < -b.demand)

\* Position p placed into the sorted list of positions s, behind every
\* position whose incident has a key that is not greater.
RECURSIVE InsertIncident(_, _, _)
InsertIncident(p, s, incs) ==
    IF s = <<>> THEN <<p>>
    ELSE IF IncidentKeyLess(incs[p], incs[s[Len(s)]])
         THEN Append(InsertIncident(p, SubSeq(s, 1, Len(s) - 1), incs), s[Len(s)])
         ELSE Append(s, p)

\* sorted(incidents, key=lambda x: (-x.severity, -x.demand)): a new, stably
\* sorted list of the same objects, here the positions 1..n of incs.
RECURSIVE SortPrefix(_, _)
SortPrefix(incs, n) ==
    IF n = 0 THEN <<>>
    ELSE InsertIncident(n, SortPrefix(incs, n - 1), incs)

SortIncidents(incs) == SortPrefix(incs, Len(incs))

\* The same sort done in place: the list itself, reordered.
SortedInPlace(incs) == [k \in 1..Len(incs) |-> incs[SortIncidents(incs)[k]]]

\* The caller's list after incidents.sort(...) in place of sorted(...).
ArgumentSortedInPlace(s) == SortedInPlace(s)

\* What sorted() leaves in the list it was given: the list itself.
ArgumentAfterSorted(s) == s

\* `if res.capacity >= 0`
IsCandidateNonNegative(res) == res.capacity >= 0

\* `if res.capacity > 0`
IsCandidate(res) == res.capacity > 0

\* The loop over resources, filtering on the capacities the call was given
\* instead of the current ones.
RECURSIVE BuildCandidatesStale(_, _, _)
BuildCandidatesStale(inc, ress, n) ==
    IF n = 0 THEN <<>>
    ELSE LET rest == BuildCandidatesStale(inc, ress, n - 1)
             dist == haversine(inc.lat, ress[n].lat)
         IN  IF resources0[n].capacity > 0
             THEN Append(rest, [score |-> Score(inc.severity, dist), res |-> n, dist |-> dist])
             ELSE rest

\* The loop over resources: one (score, res, dist) per resource with capacity,
\* in list order.  res is the position of the resource in the caller's list.
RECURSIVE BuildCandidates(_, _, _)
BuildCandidates(inc, ress, n) ==
    IF n = 0 THEN <<>>
    ELSE LET rest == BuildCandidates(inc, ress, n - 1)
             dist == haversine(inc.lat, ress[n].lat)
         IN  IF IsCandidate(ress[n])
             THEN Append(rest, [score |-> Score(inc.severity, dist), res |-> n, dist |-> dist])
             ELSE rest

\* key(a) < key(b) for key = -score.
CandidateKeyLess(a, b) == FloatLess(b.score, a.score)

RECURSIVE InsertCandidate(_, _)
InsertCandidate(x, s) ==
    IF s = <<>> THEN <<x>>
    ELSE IF CandidateKeyLess(x, s[Len(s)])
         THEN Append(InsertCandidate(x, SubSeq(s, 1, Len(s) - 1)), s[Len(s)])
         ELSE Append(s, x)

\* Only the best candidate is kept.
RECURSIVE BestCandidateOnly(_)
BestCandidateOnly(s) ==
    IF s = <<>> THEN <<>>
    ELSE LET x == s[Len(s)]
             rest == SubSeq(s, 1, Len(s) - 1)
         IN  IF \E k \in DOMAIN rest : ~CandidateKeyLess(x, rest[k])
             THEN BestCandidateOnly(rest)
             ELSE <<x>>

\* candidates.sort(key=lambda x: -x[0]): stable.
RECURSIVE SortCandidates(_)
SortCandidates(s) ==
    IF s = <<>> THEN <<>>
    ELSE InsertCandidate(s[Len(s)], SortCandidates(SubSeq(s, 1, Len(s) - 1)))

\* assigned = remaining
AssignedRemaining(rem, capacity) == rem

\* assigned = res.capacity
AssignedCapacity(rem, capacity) == capacity

\* assigned = min(remaining, res.capacity)
Assigned(rem, capacity) == IF rem <= capacity THEN rem ELSE capacity

\* res.capacity -= 1
DecrementByOne(capacity, assigned) == capacity - 1

\* res.capacity -= assigned
Decrement(capacity, assigned) == capacity - assigned

\* A list that outlives the call, such as a mutable default argument.
KeptAllocations(old) == old

\* The list `allocations` a call starts with.
FreshAllocations(old) == <<>>

\* Entry: allocations = [] and the sorted copy of the incidents.
Call ==
    /\ pc = "call"
    /\ allocations' = FreshAllocations(allocations)
    /\ incidents_sorted' = SortIncidents(incidents)
    /\ incidents' = ArgumentAfterSorted(incidents)
    /\ inc_pos' = 1
    /\ pc' = "for_inc"
    /\ UNCHANGED <<resources, remaining, candidates, cand_pos,
                   incidents0, resources0, first_call>>

\* Head of the incident loop with an incident left: remaining, the candidate
\* list and its sort.
NextIncident ==
    /\ pc = "for_inc"
    /\ inc_pos <= Len(incidents_sorted)
    /\ LET inc == incidents[incidents_sorted[inc_pos]]
       IN  /\ remaining' = inc.demand
           /\ candidates' = SortCandidates(BuildCandidates(inc, resources, Len(resources)))
    /\ cand_pos' = 1
    /\ pc' = "for_cand"
    /\ UNCHANGED <<incidents, resources, allocations, incidents_sorted, inc_pos,
                   incidents0, resources0, first_call>>

\* One pass of the candidate loop body: a record, and the two decrements.
Assign ==
    /\ pc = "for_cand"
    /\ cand_pos <= Len(candidates)
    /\ ~(remaining <= 0)
    /\ LET inc == incidents[incidents_sorted[inc_pos]]
           c == candidates[cand_pos]
           res == resources[c.res]
           assigned == Assigned(remaining, res.capacity)
       IN  /\ allocations' = Append(allocations,
                   [incident_id |-> inc.id, resource_id |-> res.id,
                    units_assigned |-> assigned, distance_km |-> RoundDist(c.dist)])
           /\ resources' = [resources EXCEPT ![c.res].capacity = Decrement(@, assigned)]
           /\ remaining' = remaining - assigned
    /\ cand_pos' = cand_pos + 1
    /\ UNCHANGED <<incidents, pc, incidents_sorted, inc_pos, candidates,
                   incidents0, resources0, first_call>>

\* The candidate loop ends: by `break`, or with no candidate left.
EndIncident ==
    /\ pc = "for_cand"
    /\ (cand_pos > Len(candidates) \/ remaining <= 0)
    /\ inc_pos' = inc_pos + 1
    /\ pc' = "for_inc"
    /\ UNCHANGED <<incidents, resources, allocations, incidents_sorted, remaining,
                   candidates, cand_pos, incidents0, resources0, first_call>>

\* return allocations
Return ==
    /\ pc = "for_inc"
    /\ inc_pos > Len(incidents_sorted)
    /\ pc' = "returned"
    /\ UNCHANGED <<incidents, resources, allocations, incidents_sorted, inc_pos,
                   remaining, candidates, cand_pos, incidents0, resources0, first_call>>

\* The caller keeps the result and calls again with the same incident list
\* and resources that have the field values the first call was given.
Repeat ==
    /\ pc = "returned"
    /\ first_call = <<>>
    /\ first_call' = <<[allocations |-> allocations, resources |-> resources]>>
    /\ resources' = resources0
    /\ pc' = "call"
    /\ UNCHANGED <<incidents, allocations, incidents_sorted, inc_pos, remaining,
                   candidates, cand_pos, incidents0, resources0>>

Next == Call \/ NextIncident \/ Assign \/ EndIncident \/ Return

Spec == Init /\ [][Next]_vars

NextRepeat == Call \/ NextIncident \/ Assign \/ EndIncident \/ Return \/ Repeat

SpecRepeat == Init /\ [][NextRepeat]_vars

(* ----------------------------- properties ----------------------------- *)

Min(a, b) == IF a <= b THEN a ELSE b

\* Units of resource id rid in the first n records.
RECURSIVE UnitsOfResource(_, _)
UnitsOfResource(rid, n) ==
    IF n = 0 THEN 0
    ELSE UnitsOfResource(rid, n - 1)
         + (IF allocations[n].resource_id = rid THEN allocations[n].units_assigned ELSE 0)

\* Units given to incident id iid in the first n records.
RECURSIVE UnitsOfIncident(_, _)
UnitsOfIncident(iid, n) ==
    IF n = 0 THEN 0
    ELSE UnitsOfIncident(iid, n - 1)
         + (IF allocations[n].incident_id = iid THEN allocations[n].units_assigned ELSE 0)

RECURSIVE TotalUnits(_)
TotalUnits(n) == IF n = 0 THEN 0 ELSE TotalUnits(n - 1) + allocations[n].units_assigned

RECURSIVE TotalPositiveDemand(_)
TotalPositiveDemand(n) ==
    IF n = 0 THEN 0
    ELSE TotalPositiveDemand(n - 1)
         + (IF incidents0[n].demand > 0 THEN incidents0[n].demand ELSE 0)

RECURSIVE TotalInitialCapacity(_)
TotalInitialCapacity(n) ==
    IF n = 0 THEN 0 ELSE TotalInitialCapacity(n - 1) + resources0[n].capacity

\* Ids are the positions in the lists the call was given.
RecordDistance(rec) ==
    haversine(incidents0[rec.incident_id].lat, resources0[rec.resource_id].lat)

\* Records of the incident of record k that precede record k.
FirstRecordOf(iid) ==
    CHOOSE k \in DOMAIN allocations :
        /\ allocations[k].incident_id = iid
        /\ \A j \in 1..(k - 1) : allocations[j].incident_id # iid

\* C1: after allocate_resources returns, for every resource the units
\* assigned from it over all records sum to at most its initial capacity, and
\* its final capacity is its initial capacity minus that sum.
CapacityConservation ==
    pc = "returned" =>
        \A r \in DOMAIN resources0 :
            LET units == UnitsOfResource(resources0[r].id, Len(allocations))
            IN  /\ units <= resources0[r].capacity
                /\ resources[r].capacity = resources0[r].capacity - units

\* A resource that served two incidents and is left with capacity.
CapacityConservationWitness ==
    /\ pc = "returned"
    /\ \E r \in DOMAIN resources0 :
          /\ \E a, b \in DOMAIN allocations :
                /\ a < b
                /\ allocations[a].resource_id = r
                /\ allocations[b].resource_id = r
          /\ resources[r].capacity = 0
          /\ resources0[r].capacity = 2

\* C2: in every state of a run, every resource's capacity is >= 0.
CapacityNeverNegative ==
    \A r \in DOMAIN resources : resources[r].capacity >= 0

\* Inside the candidate loop, a decrement has just drained a resource while
\* demand remains.
CapacityNeverNegativeWitness ==
    /\ pc = "for_cand"
    /\ cand_pos > 1
    /\ remaining > 0
    /\ resources[candidates[cand_pos - 1].res].capacity = 0

\* C3: after the call, every incident with positive demand has received at
\* most its demand, and less than its demand only when no capacity is left.
DemandBound ==
    pc = "returned" =>
        \A i \in DOMAIN incidents0 :
            incidents0[i].demand > 0 =>
                LET units == UnitsOfIncident(incidents0[i].id, Len(allocations))
                IN  /\ units <= incidents0[i].demand
                    /\ units < incidents0[i].demand =>
                           \A r \in DOMAIN resources : resources[r].capacity = 0

\* One incident fully served from two resources, another only partly served.
DemandBoundWitness ==
    /\ pc = "returned"
    /\ \E i, k \in DOMAIN incidents0 :
          /\ UnitsOfIncident(i, Len(allocations)) = incidents0[i].demand
          /\ incidents0[i].demand = 2
          /\ \E a, b \in DOMAIN allocations :
                /\ a # b
                /\ allocations[a].incident_id = i
                /\ allocations[b].incident_id = i
          /\ UnitsOfIncident(k, Len(allocations)) > 0
          /\ UnitsOfIncident(k, Len(allocations)) < incidents0[k].demand

\* Incident p is processed before incident q: higher severity, then higher
\* demand, then earlier in the input.
ProcessedBefore(p, q) ==
    \/ incidents0[p].severity > incidents0[q].severity
    \/ /\ incidents0[p].severity = incidents0[q].severity
       /\ incidents0[p].demand > incidents0[q].demand
    \/ /\ incidents0[p].severity = incidents0[q].severity
       /\ incidents0[p].demand = incidents0[q].demand
       /\ p < q

\* C4: the records of one incident are contiguous, and incidents appear in
\* the order of the input sorted by descending severity, then descending
\* demand, with equal incidents in their input order.
PriorityOrdering ==
    /\ \A a, b \in DOMAIN allocations :
          (a < b /\ allocations[a].incident_id # allocations[b].incident_id) =>
              ProcessedBefore(allocations[a].incident_id, allocations[b].incident_id)
    /\ \A a, b, c \in DOMAIN allocations :
          (a < b /\ b < c /\ allocations[a].incident_id = allocations[c].incident_id) =>
              allocations[b].incident_id = allocations[a].incident_id

\* Two incidents with the same severity and demand both received records.
PriorityOrderingWitness ==
    /\ pc = "returned"
    /\ \E p, q \in DOMAIN incidents0 :
          /\ p < q
          /\ incidents0[p].severity = incidents0[q].severity
          /\ incidents0[p].demand = incidents0[q].demand
          /\ UnitsOfIncident(p, Len(allocations)) > 0
          /\ UnitsOfIncident(q, Len(allocations)) > 0

\* C5: every record emitted has units_assigned > 0.
NoZeroUnitRecords ==
    \A k \in DOMAIN allocations : allocations[k].units_assigned > 0

\* Records were emitted although one resource started empty and one incident
\* asked for nothing.
NoZeroUnitRecordsWitness ==
    /\ pc = "returned"
    /\ allocations # <<>>
    /\ \E r \in DOMAIN resources0 : resources0[r].capacity = 0
    /\ \E i \in DOMAIN incidents0 : incidents0[i].demand = 0

\* C6: a resource with capacity 0 when a candidate list is built is not in
\* it and gets no record for that incident: every candidate not yet walked
\* has capacity, every record was emitted while its resource still had
\* capacity, and a resource that started at 0 is in no record.
ZeroCapacityExclusion ==
    /\ pc = "for_cand" =>
          \A k \in cand_pos..Len(candidates) :
              resources[candidates[k].res].capacity > 0
    /\ \A k \in DOMAIN allocations :
          UnitsOfResource(allocations[k].resource_id, k - 1)
              < resources0[allocations[k].resource_id].capacity
    /\ \A r \in DOMAIN resources0 :
          resources0[r].capacity = 0 =>
              /\ \A k \in DOMAIN allocations : allocations[k].resource_id # resources0[r].id
              /\ \A k \in DOMAIN candidates : candidates[k].res # r

\* A later incident was served by a farther resource because the closer one
\* had been drained by an earlier incident.
ZeroCapacityExclusionWitness ==
    /\ pc = "returned"
    /\ \E a, b \in DOMAIN allocations :
          /\ a < b
          /\ allocations[a].incident_id # allocations[b].incident_id
          /\ allocations[a].resource_id # allocations[b].resource_id
          /\ resources[allocations[a].resource_id].capacity = 0
          /\ UnitsOfIncident(allocations[b].incident_id, Len(allocations))
                 < incidents0[allocations[b].incident_id].demand
          /\ haversine(incidents0[allocations[b].incident_id].lat,
                       resources0[allocations[a].resource_id].lat)
                 < RecordDistance(allocations[b])

\* C7: for one incident a candidate with strictly smaller distance never
\* ranks below one with strictly larger distance; the records of one incident
\* are in non-decreasing order of distance; and a resource receives a record
\* only if every strictly closer resource that had capacity when the incident
\* began has received one before it.
ScoreMonotonicity ==
    /\ pc = "for_cand" =>
          \A a, b \in DOMAIN candidates :
              candidates[a].dist < candidates[b].dist => a < b
    /\ \A a, b \in DOMAIN allocations :
          (a < b /\ allocations[a].incident_id = allocations[b].incident_id) =>
              RecordDistance(allocations[a]) <= RecordDistance(allocations[b])
    /\ \A b \in DOMAIN allocations :
          \A r \in DOMAIN resources0 :
              LET iid == allocations[b].incident_id
                  first == FirstRecordOf(iid)
              IN  (/\ haversine(incidents0[iid].lat, resources0[r].lat)
                          < RecordDistance(allocations[b])
                   /\ UnitsOfResource(r, first - 1) < resources0[r].capacity)
                  => \E a \in first..(b - 1) : allocations[a].resource_id = r

\* C8: a second call with the same incidents and with resources that have
\* the same field values returns the same records and leaves the same
\* capacities.
Determinism ==
    (pc = "returned" /\ first_call # <<>>) =>
        /\ allocations = first_call[1].allocations
        /\ resources = first_call[1].resources

\* The second call has returned, with at least two records.
DeterminismWitness ==
    /\ pc = "returned"
    /\ first_call # <<>>
    /\ Len(allocations) >= 2
    /\ resources # resources0

\* C9: when the walk of an incident's candidates ends with demand unmet,
\* every resource is at capacity 0, and after the run the units assigned
\* total min(sum of positive demands, sum of initial capacities).
GreedyExhaustive ==
    /\ (pc = "for_cand" /\ cand_pos > Len(candidates) /\ remaining > 0) =>
          \A r \in DOMAIN resources : resources[r].capacity = 0
    /\ (pc = "for_inc" /\ inc_pos > 1 /\ remaining > 0) =>
          \A r \in DOMAIN resources : resources[r].capacity = 0
    /\ pc = "returned" =>
          TotalUnits(Len(allocations))
              = Min(TotalPositiveDemand(Len(incidents0)),
                    TotalInitialCapacity(Len(resources0)))

\* The higher-priority incident took both resources and was still left
\* short; the other incident wanted units and got none.
GreedyExhaustiveWitness ==
    /\ pc = "returned"
    /\ Len(allocations) = 2
    /\ allocations[1].incident_id = allocations[2].incident_id
    /\ \E k \in DOMAIN incidents0 :
          /\ incidents0[k].demand > 0
          /\ UnitsOfIncident(k, Len(allocations)) = 0
    /\ TotalInitialCapacity(Len(resources0)) < TotalPositiveDemand(Len(incidents0))

\* C10: the call changes only capacities: the caller's incident list keeps
\* its records, order and length, and every resource keeps its id, lat, lon
\* and type.
FrameOfAllocate ==
    /\ incidents = incidents0
    /\ Len(resources) = Len(resources0)
    /\ \A r \in DOMAIN resources :
          [resources[r] EXCEPT !.capacity = resources0[r].capacity] = resources0[r]

\* Capacity was consumed, and the processing order differs from the input
\* order.
FrameOfAllocateWitness ==
    /\ pc = "returned"
    /\ resources # resources0
    /\ incidents_sorted # [k \in 1..Len(incidents) |-> k]
    /\ \E i \in DOMAIN incidents0 :
          /\ UnitsOfIncident(i, Len(allocations)) > 0
          /\ UnitsOfIncident(i, Len(allocations)) < incidents0[i].demand

=============================================================================
